---- MODULE Spec2Model ----
(***************************************************************************)
(* tfcycle: the parser of Terraform "Error: Cycle:" diagnostics and the    *)
(* heuristic cycle analyzer.  Strings are modelled as sequences of         *)
(* one-character strings, so that the regular expressions, the splitting   *)
(* scan, FullName and the byte-wise string comparison of the Go code are   *)
(* computed character by character.                                        *)
(***************************************************************************)
EXTENDS Integers, Sequences, FiniteSets, TLC

\* ------------------------------------------------------------------ bounds

\* longest node list of an analysis run (specification Spec)
MaxNodes == 3
\* longest list of distinct nodes of an analysis run (specification Spec)
MaxSortNodes == 5
\* longest node list of a run with repeated calls (specification SpecRepeat)
MaxRepeatNodes == 2
\* longest free-form character string given to splitResources (SpecSplit)
MaxSplitLen == 5
\* most text pieces concatenated into one diagnostic (SpecParse)
MaxPieces == 4
\* most pieces concatenated into one resource string (SpecSegment)
MaxSegPieces == 3
\* longest identity sequence given to normalizeCycle (SpecNorm)
MaxCycleLen == 3
\* longest module path given to shareModulePath (SpecModule)
MaxPathLen == 3
\* longest node list whose graph is traversed in steps (SpecTraverse)
MaxTraverseNodes == 3

\* ------------------------------------------------------------- characters

Lower ==
  <<"a", "b", "c", "d", "e", "f", "g", "h", "i", "j", "k", "l", "m",
    "n", "o", "p", "q", "r", "s", "t", "u", "v", "w", "x", "y", "z">>

Upper ==
  <<"A", "B", "C", "D", "E", "F", "G", "H", "I", "J", "K", "L", "M",
    "N", "O", "P", "Q", "R", "S", "T", "U", "V", "W", "X", "Y", "Z">>

Digits ==
  <<"0", "1", "2", "3", "4", "5", "6", "7", "8", "9">>

\* the characters of the model in ascending byte order (Go compares strings
\* byte by byte; only the order of the bytes matters)
AsciiOrder ==
  <<"\t", "\n", " ", "\"", "(", ")", ",", "-", ".">> \o Digits \o <<":">>
    \o Upper \o <<"[", "]", "_">> \o Lower

Range(s) == {s[i] : i \in 1..Len(s)}

OrdOf ==
  [c \in Range(AsciiOrder) |->
     CHOOSE i \in 1..Len(AsciiOrder) : AsciiOrder[i] = c]

\* [a-zA-Z0-9_-]
WordChars == Range(Lower) \cup Range(Upper) \cup Range(Digits) \cup {"_", "-"}

\* \s of the regular expressions, and the white space of strings.TrimSpace
SpaceChars == {"\t", "\n", " "}

\* [a-f0-9]
HexChars == {"a", "b", "c", "d", "e", "f"} \cup Range(Digits)

\* ---------------------------------------------------------------- strings

RECURSIVE StrLessFrom(_, _, _)
StrLessFrom(a, b, i) ==
  IF i > Len(b) THEN FALSE
  ELSE IF i > Len(a) THEN TRUE
  ELSE IF a[i] = b[i] THEN StrLessFrom(a, b, i + 1)
  ELSE OrdOf[a[i]] < OrdOf[b[i]]

\* the Go operator a < b on strings
StrLess(a, b) == StrLessFrom(a, b, 1)

\* p occurs in s at position i
HasPrefixAt(s, p, i) ==
  /\ i + Len(p) - 1 <= Len(s)
  /\ \A k \in 1..Len(p) : s[i + k - 1] = p[k]

\* strings.HasPrefix
HasPrefix(s, p) == HasPrefixAt(s, p, 1)

\* the last index of the longest run of characters of C that starts at i
\* (i - 1 when s[i] is not in C): a greedy C* from position i
RECURSIVE RunEnd(_, _, _)
RunEnd(s, i, C) ==
  IF i <= Len(s) /\ s[i] \in C THEN RunEnd(s, i + 1, C) ELSE i - 1

\* the last index up to i whose character is not in C (0 if none)
RECURSIVE LastOutside(_, _, _)
LastOutside(s, i, C) ==
  IF i >= 1 /\ s[i] \in C THEN LastOutside(s, i - 1, C) ELSE i

\* strings.Trim(s, cutset)
Trim(s, C) == SubSeq(s, RunEnd(s, 1, C) + 1, LastOutside(s, Len(s), C))

\* strings.TrimSpace
TrimSpace(s) == Trim(s, SpaceChars)

Min(S) == CHOOSE x \in S : \A y \in S : x <= y

RECURSIVE Flatten(_)
Flatten(ss) == IF ss = <<>> THEN <<>> ELSE Head(ss) \o Flatten(Tail(ss))

\* strings.Join(parts, sep)
RECURSIVE Join(_, _)
Join(parts, sep) ==
  IF parts = <<>> THEN <<>>
  ELSE IF Len(parts) = 1 THEN parts[1]
  ELSE parts[1] \o sep \o Join(Tail(parts), sep)

\* strings.Split(s, sep) for a one-character separator
RECURSIVE SplitFrom(_, _, _, _)
SplitFrom(s, sep, i, current) ==
  IF i > Len(s) THEN <<current>>
  ELSE IF s[i] = sep THEN <<current>> \o SplitFrom(s, sep, i + 1, <<>>)
  ELSE SplitFrom(s, sep, i + 1, Append(current, s[i]))

Split(s, sep) == SplitFrom(s, sep, 1, <<>>)

\* ----------------------------------------------------- regular expressions

ErrorColon == <<"E", "r", "r", "o", "r", ":">>
CycleColon == <<"C", "y", "c", "l", "e", ":">>
StrExpand  == <<"e", "x", "p", "a", "n", "d">>
StrDestroy == <<"d", "e", "s", "t", "r", "o", "y">>
StrClose   == <<"c", "l", "o", "s", "e">>
StrDeposed == <<"d", "e", "p", "o", "s", "e", "d">>
StrDestroyDeposed == StrDestroy \o <<" ">> \o StrDeposed
StrModuleDot == <<"m", "o", "d", "u", "l", "e", ".">>

\* 0 for the empty set, else its least element
MinOrZero(S) == IF S = {} THEN 0 ELSE Min(S)

\* cycleRegex (?s)Error:\s*Cycle:\s*(.+): where group 1 starts (0: no match)
\* once "Cycle:" ended before p3 and the greedy \s* behind it before p4.
\* That \s* gives back its last character when nothing is left for (.+).
CycleCaptureStart(s, p3, p4) ==
  IF p4 <= Len(s) THEN p4
  ELSE IF p4 > p3 THEN p4 - 1
  ELSE 0

\* cycleRegex once "Error:" and the greedy \s* behind it ended before p2
CycleAfterError(s, p2) ==
  IF ~HasPrefixAt(s, CycleColon, p2) THEN 0
  ELSE CycleCaptureStart(s, p2 + 6, RunEnd(s, p2 + 6, SpaceChars) + 1)

\* cycleRegex tried at position i: where group 1 starts, or 0
CycleRegexAt(s, i) ==
  IF ~HasPrefixAt(s, ErrorColon, i) THEN 0
  ELSE CycleAfterError(s, RunEnd(s, i + 6, SpaceChars) + 1)

\* the result of cycleRegex.FindStringSubmatch for the leftmost match at i
CycleMatchAt(s, i) ==
  IF i = 0 THEN [matched |-> FALSE, text |-> <<>>]
  ELSE [matched |-> TRUE, text |-> SubSeq(s, CycleRegexAt(s, i), Len(s))]

\* cycleRegex.FindStringSubmatch: [matched, text] with text = matches[1]
cycleRegexFind(s) ==
  CycleMatchAt(s, MinOrZero({i \in 1..Len(s) : CycleRegexAt(s, i) # 0}))

\* the end of [a-f0-9]+\) when the hexadecimal run from position from ends
\* at h: the index of the ")" or 0
HexClose(s, from, h) ==
  IF h < from THEN 0
  ELSE IF h + 1 <= Len(s) /\ s[h + 1] = ")" THEN h + 1
  ELSE 0

\* \s+[a-f0-9]+\) behind "deposed": w2 is the end of the white space from
\* position from
DeposedHex(s, from, w2) ==
  IF w2 < from THEN 0
  ELSE HexClose(s, w2 + 1, RunEnd(s, w2 + 1, HexChars))

\* \s+deposed\s+[a-f0-9]+\) behind "destroy": w1 is the end of the white
\* space from position from
DeposedTail(s, from, w1) ==
  IF w1 < from \/ ~HasPrefixAt(s, StrDeposed, w1 + 1) THEN 0
  ELSE DeposedHex(s, w1 + 8, RunEnd(s, w1 + 8, SpaceChars))

\* actionRegex from its "(" at position q: the index of the closing ")" of
\* \((expand|destroy|close|destroy\s+deposed\s+[a-f0-9]+)\), or 0
ActionEndAt(s, q) ==
  IF HasPrefixAt(s, StrExpand \o <<")">>, q + 1) THEN q + 7
  ELSE IF HasPrefixAt(s, StrDestroy \o <<")">>, q + 1) THEN q + 8
  ELSE IF HasPrefixAt(s, StrClose \o <<")">>, q + 1) THEN q + 6
  ELSE IF ~HasPrefixAt(s, StrDestroy, q + 1) THEN 0
  ELSE DeposedTail(s, q + 8, RunEnd(s, q + 8, SpaceChars))

\* actionRegex \s*\((...)\) can match with its "(" at position q
ActionOpensAt(s, q) ==
  /\ q <= Len(s)
  /\ s[q] = "("
  /\ ActionEndAt(s, q) # 0

\* the match of actionRegex that starts at i with its "(" at q
ActionMatchAt(s, i, q) ==
  IF i = 0 THEN [found |-> FALSE, start |-> 0, open |-> 0, end |-> 0]
  ELSE [found |-> TRUE, start |-> i, open |-> q, end |-> ActionEndAt(s, q)]

\* where the leftmost match of actionRegex at from or later starts (0: none);
\* the greedy \s* runs up to the "("
ActionStartFrom(s, from) ==
  MinOrZero({i \in from..Len(s) :
               ActionOpensAt(s, RunEnd(s, i, SpaceChars) + 1)})

\* the match of actionRegex that starts at i
ActionMatchStart(s, i) == ActionMatchAt(s, i, RunEnd(s, i, SpaceChars) + 1)

\* the leftmost match of actionRegex that starts at from or later:
\* [found, start, open, end]
ActionMatchFrom(s, from) == ActionMatchStart(s, ActionStartFrom(s, from))

\* actionRegex.ReplaceAllString(s, ""), from position from on
RECURSIVE ActionReplaceAllFrom(_, _)
RECURSIVE ActionReplaceStep(_, _, _)
ActionReplaceAllFrom(s, from) ==
  ActionReplaceStep(s, from, ActionMatchFrom(s, from))

\* one step of the replacement: m is the leftmost match from from on
ActionReplaceStep(s, from, m) ==
  IF ~m.found THEN SubSeq(s, from, Len(s))
  ELSE SubSeq(s, from, m.start - 1) \o ActionReplaceAllFrom(s, m.end + 1)

\* the first "]" behind position i (0: none), the end of the greedy [^\]]+
InstanceCloseOf(s, i) == MinOrZero({k \in (i + 1)..Len(s) : s[k] = "]"})

\* the match of instanceRegex that starts at i
InstanceMatchAt(s, i) ==
  IF i = 0 THEN [found |-> FALSE, start |-> 0, end |-> 0]
  ELSE [found |-> TRUE, start |-> i, end |-> InstanceCloseOf(s, i)]

\* the leftmost match of instanceRegex \[([^\]]+)\] that starts at from or
\* later: [found, start, end]
InstanceMatchFrom(s, from) ==
  InstanceMatchAt(s, MinOrZero({i \in from..Len(s) :
                                  s[i] = "[" /\ InstanceCloseOf(s, i) > i + 1}))

\* instanceRegex.ReplaceAllString(s, ""), from position from on
RECURSIVE InstanceReplaceAllFrom(_, _)
RECURSIVE InstanceReplaceStep(_, _, _)
InstanceReplaceAllFrom(s, from) ==
  InstanceReplaceStep(s, from, InstanceMatchFrom(s, from))

\* one step of the replacement: m is the leftmost match from from on
InstanceReplaceStep(s, from, m) ==
  IF ~m.found THEN SubSeq(s, from, Len(s))
  ELSE SubSeq(s, from, m.start - 1) \o InstanceReplaceAllFrom(s, m.end + 1)

\* moduleRegex ^((?:module\.[a-zA-Z0-9_-]+\.)*): the index of the last
\* character of the greedy repetition whose next group would start at i
RECURSIVE ModulePrefixEnd(_, _)
RECURSIVE ModuleGroupEnd(_, _, _)
ModulePrefixEnd(s, i) ==
  IF ~HasPrefixAt(s, StrModuleDot, i) THEN i - 1
  ELSE ModuleGroupEnd(s, i, RunEnd(s, i + 7, WordChars))

\* one more group module\.[a-zA-Z0-9_-]+\. from i, its name ending at w
ModuleGroupEnd(s, i, w) ==
  IF w >= i + 7 /\ w + 1 <= Len(s) /\ s[w + 1] = "."
  THEN ModulePrefixEnd(s, w + 2)
  ELSE i - 1

\* resourceRegex can match from i, where its first group would end at w
ResourceAt(s, i, w) ==
  /\ s[i] \in WordChars
  /\ w + 2 <= Len(s)
  /\ s[w + 1] = "."
  /\ s[w + 2] \in WordChars

\* the leftmost match of resourceRegex at i, its first group ending at w
ResourceMatchAt(s, i, w) ==
  IF i = 0 THEN [found |-> FALSE, type |-> <<>>, name |-> <<>>]
  ELSE [found |-> TRUE, type |-> SubSeq(s, i, w),
        name |-> SubSeq(s, w + 2, RunEnd(s, w + 2, WordChars))]

\* the match of resourceRegex that starts at i
ResourceMatchStart(s, i) == ResourceMatchAt(s, i, RunEnd(s, i, WordChars))

\* resourceRegex ([a-zA-Z0-9_-]+)\.([a-zA-Z0-9_-]+), leftmost match:
\* [found, type, name]
resourceRegexFind(s) ==
  ResourceMatchStart(s, MinOrZero({i \in 1..Len(s) :
                                     ResourceAt(s, i, RunEnd(s, i, WordChars))}))

\* ------------------------------------------------------------------ nodes

ActionNormal == "normal"
ActionExpand == "expand"
ActionDestroy == "destroy"
ActionClose == "close"
ActionDestroyDeposed == "destroy_deposed"

\* CycleNode.FullName
FullName(n) ==
  LET parts  == Append(n.ModulePath, n.ResourceType \o <<".">> \o n.ResourceName)
      result == Join(parts, <<".">>)
  IN  IF n.InstanceKey # <<>>
      THEN result \o <<"[">> \o n.InstanceKey \o <<"]">>
      ELSE result

\* ----------------------------------------------------------------- parser

\* the scan of splitResources over s from position i
RECURSIVE SplitScan(_, _, _, _, _, _)
SplitScan(s, i, resources, current, inBrackets, inParens) ==
  IF i > Len(s)
  THEN IF Len(current) > 0 THEN Append(resources, current) ELSE resources
  ELSE LET char == s[i]
       IN  CASE char = "[" ->
                  SplitScan(s, i + 1, resources, Append(current, char),
                            inBrackets + 1, inParens)
             [] char = "]" ->
                  SplitScan(s, i + 1, resources, Append(current, char),
                            inBrackets - 1, inParens)
             [] char = "(" ->
                  SplitScan(s, i + 1, resources, Append(current, char),
                            inBrackets, inParens + 1)
             [] char = ")" ->
                  SplitScan(s, i + 1, resources, Append(current, char),
                            inBrackets, inParens - 1)
             [] char = "," ->
                  IF inBrackets = 0 /\ inParens = 0
                  THEN IF Len(current) > 0
                       THEN SplitScan(s, i + 1, Append(resources, current),
                                      <<>>, inBrackets, inParens)
                       ELSE SplitScan(s, i + 1, resources, current,
                                      inBrackets, inParens)
                  ELSE SplitScan(s, i + 1, resources, Append(current, char),
                                 inBrackets, inParens)
             [] OTHER ->
                  SplitScan(s, i + 1, resources, Append(current, char),
                            inBrackets, inParens)

\* strings.ReplaceAll(s, "\n", " ") and strings.ReplaceAll(s, "\t", " ")
ReplaceNewlinesAndTabs(s) ==
  [i \in 1..Len(s) |-> IF s[i] \in {"\n", "\t"} THEN " " ELSE s[i]]

\* the second loop of splitResources: trim, and keep what is not empty
RECURSIVE FilterBlank(_)
FilterBlank(resources) ==
  IF resources = <<>> THEN <<>>
  ELSE IF TrimSpace(Head(resources)) # <<>>
  THEN <<TrimSpace(Head(resources))>> \o FilterBlank(Tail(resources))
  ELSE FilterBlank(Tail(resources))

\* Parser.splitResources
splitResources(cycleText) ==
  FilterBlank(SplitScan(ReplaceNewlinesAndTabs(cycleText), 1, <<>>, <<>>, 0, 0))

\* the switch of parseResource on the captured annotation text
ActionOf(actionStr) ==
  IF actionStr = StrExpand THEN ActionExpand
  ELSE IF actionStr = StrClose THEN ActionClose
  ELSE IF actionStr = StrDestroy THEN ActionDestroy
  ELSE IF HasPrefix(actionStr, StrDestroyDeposed) THEN ActionDestroyDeposed
  ELSE ActionNormal

\* deposedRegex destroy\s+deposed\s+([a-f0-9]+) tried at position i of the
\* annotation text: where group 1 starts, or 0
DeposedHexStart(s, w2from, w2) ==
  IF w2 < w2from \/ RunEnd(s, w2 + 1, HexChars) < w2 + 1 THEN 0 ELSE w2 + 1

DeposedAfterDestroy(s, w1from, w1) ==
  IF w1 < w1from \/ ~HasPrefixAt(s, StrDeposed, w1 + 1) THEN 0
  ELSE DeposedHexStart(s, w1 + 8, RunEnd(s, w1 + 8, SpaceChars))

DeposedRegexAt(s, i) ==
  IF ~HasPrefixAt(s, StrDestroy, i) THEN 0
  ELSE DeposedAfterDestroy(s, i + 7, RunEnd(s, i + 7, SpaceChars))

\* group 1 of deposedRegex when it starts at h (0: no match)
DeposedCapture(s, h) ==
  IF h = 0 THEN <<>> ELSE SubSeq(s, h, RunEnd(s, h, HexChars))

\* group 1 of the leftmost match of deposedRegex at i (0: no match)
DeposedMatchAt(s, i) ==
  IF i = 0 THEN <<>> ELSE DeposedCapture(s, DeposedRegexAt(s, i))

\* deposedRegex.FindStringSubmatch(actionStr)[1], <<>> without a match
deposedRegexFind(actionStr) ==
  DeposedMatchAt(actionStr,
                 MinOrZero({i \in 1..Len(actionStr) : DeposedRegexAt(actionStr, i) # 0}))

\* node.Annotations after the switch
AnnotationsOf(action, deposedId) ==
  IF action = ActionDestroyDeposed /\ deposedId # <<>>
  THEN {<<"deposed_id", deposedId>>}
  ELSE {}

\* parseResource, lifecycle annotation: actionStr is the trimmed group 1
ParseActionStr(resourceStr, actionStr) ==
  [RawString   |-> resourceStr,
   cleanStr    |-> ActionReplaceAllFrom(resourceStr, 1),
   Action      |-> ActionOf(actionStr),
   Annotations |-> AnnotationsOf(ActionOf(actionStr), deposedRegexFind(actionStr))]

\* parseResource, lifecycle annotation: m is actionRegex's leftmost match
ParseActionMatch(resourceStr, m) ==
  IF ~m.found
  THEN [RawString |-> resourceStr, cleanStr |-> resourceStr,
        Action |-> ActionNormal, Annotations |-> {}]
  ELSE ParseActionStr(resourceStr,
                      TrimSpace(SubSeq(resourceStr, m.open + 1, m.end - 1)))

\* parseResource up to the end of the switch on the annotation
ParseAction(resourceStr) ==
  ParseActionMatch(resourceStr, ActionMatchFrom(resourceStr, 1))

\* parseResource, instance key: m is instanceRegex's leftmost match in the
\* cleaned string
ParseInstanceMatch(n, m) ==
  IF ~m.found
  THEN [RawString |-> n.RawString, cleanStr |-> n.cleanStr, Action |-> n.Action,
        Annotations |-> n.Annotations, InstanceKey |-> <<>>]
  ELSE [RawString |-> n.RawString,
        cleanStr |-> InstanceReplaceAllFrom(n.cleanStr, 1),
        Action |-> n.Action, Annotations |-> n.Annotations,
        InstanceKey |-> Trim(SubSeq(n.cleanStr, m.start + 1, m.end - 1), {"\""})]

ParseInstance(n) == ParseInstanceMatch(n, InstanceMatchFrom(n.cleanStr, 1))

\* parseResource, module path: the match of moduleRegex ends at modEnd
ParseModuleEnd(n, modEnd) ==
  [RawString |-> n.RawString,
   cleanStr |-> SubSeq(n.cleanStr, modEnd + 1, Len(n.cleanStr)),
   Action |-> n.Action, Annotations |-> n.Annotations,
   InstanceKey |-> n.InstanceKey,
   ModulePath |-> IF modEnd > 0
                  THEN Split(SubSeq(n.cleanStr, 1, modEnd - 1), ".")
                  ELSE <<>>]

ParseModule(n) == ParseModuleEnd(n, ModulePrefixEnd(n.cleanStr, 1))

\* parseResource, type and name: res is the match of resourceRegex
ParseTypeName(n, res) ==
  [ok       |-> res.found,
   cleanStr |-> n.cleanStr,
   node     |-> [ResourceType |-> res.type,
                 ResourceName |-> res.name,
                 ModulePath   |-> n.ModulePath,
                 InstanceKey  |-> n.InstanceKey,
                 Action       |-> n.Action,
                 Annotations  |-> n.Annotations,
                 RawString    |-> n.RawString]]

ParseResourceRest(n) == ParseTypeName(n, resourceRegexFind(n.cleanStr))

\* Parser.parseResource: [ok, node, cleanStr]; ok = FALSE is the returned error
parseResource(resourceStr) ==
  ParseResourceRest(ParseModule(ParseInstance(ParseAction(resourceStr))))

ErrNone == "nil"
ErrNoCycle == "could not extract cycle from error message"
ErrNoResources == "no valid resources found in cycle"
ErrEmptyInput == "input is empty"
ErrNoCyclesFound == "no cycles found to visualize"

\* the loop of ParseError over the resource strings from index i on:
\* [Nodes, warnings], one warning per resource string that failed to parse
RECURSIVE ParseLoop(_, _, _, _)
RECURSIVE ParseLoopStep(_, _, _, _, _)
ParseLoop(resourceStrings, i, nodes, warnings) ==
  IF i > Len(resourceStrings) THEN [Nodes |-> nodes, warnings |-> warnings]
  ELSE ParseLoopStep(resourceStrings, i, nodes, warnings,
                     parseResource(TrimSpace(resourceStrings[i])))

\* one turn of the loop: r is what parseResource returned
ParseLoopStep(resourceStrings, i, nodes, warnings, r) ==
  IF ~r.ok
  THEN ParseLoop(resourceStrings, i + 1, nodes, Append(warnings, resourceStrings[i]))
  ELSE ParseLoop(resourceStrings, i + 1, Append(nodes, r.node), warnings)

\* a ParseError that returns whatever the loop collected
ParseErrorResultUnchecked(parsed) ==
  [err |-> ErrNone, isNil |-> FALSE, Nodes |-> parsed.Nodes,
   warnings |-> parsed.warnings]

\* ParseError behind the loop: parsed is what the loop collected
ParseErrorResult(parsed) ==
  IF Len(parsed.Nodes) = 0
  THEN [err |-> ErrNoResources, isNil |-> TRUE, Nodes |-> <<>>,
        warnings |-> parsed.warnings]
  ELSE [err |-> ErrNone, isNil |-> FALSE, Nodes |-> parsed.Nodes,
        warnings |-> parsed.warnings]

\* ParseError behind the match of cycleRegex
ParseErrorMatch(matches) ==
  IF ~matches.matched
  THEN [err |-> ErrNoCycle, isNil |-> TRUE, Nodes |-> <<>>, warnings |-> <<>>]
  ELSE ParseErrorResult(ParseLoop(splitResources(matches.text), 1, <<>>, <<>>))

\* Parser.ParseError: [err, isNil, Nodes, warnings]; isNil says that the
\* returned *TfCycle is nil, warnings are the lines printed to standard output
ParseError(errorText) == ParseErrorMatch(cycleRegexFind(errorText))

\* --------------------------------------------------------------- analyzer

TypeSecurityGroup ==
  <<"a", "w", "s", "_", "s", "e", "c", "u", "r", "i", "t", "y", "_",
    "g", "r", "o", "u", "p">>
TypeInstance == <<"a", "w", "s", "_", "i", "n", "s", "t", "a", "n", "c", "e">>
PrefixIam == <<"a", "w", "s", "_", "i", "a", "m">>
TypeIamRole == PrefixIam \o <<"_", "r", "o", "l", "e">>
TypeIamPolicy == PrefixIam \o <<"_", "p", "o", "l", "i", "c", "y">>

\* the loop of FindMinimalCycles over ca.cycle.Nodes
NodeNames(nodes) == [i \in 1..Len(nodes) |-> FullName(nodes[i])]

\* TfCycle.GetNodeByName: the index of the first node with that full name,
\* 0 for nil
GetNodeByName(nodes, name) ==
  LET hits == {i \in 1..Len(nodes) : FullName(nodes[i]) = name}
  IN  IF hits = {} THEN 0 ELSE Min(hits)

\* a shareModulePath that compares the first segments only
shareModulePathFirstSegment(pathA, pathB) ==
  pathA # <<>> /\ pathB # <<>> /\ pathA[1] = pathB[1]

\* CycleAnalyzer.shareModulePath
shareModulePath(pathA, pathB) ==
  LET minLen == IF Len(pathB) < Len(pathA) THEN Len(pathB) ELSE Len(pathA)
  IN  IF minLen = 0 THEN FALSE
      ELSE \A i \in 1..minLen : pathA[i] = pathB[i]

\* CycleAnalyzer.likelyDependency
likelyDependency(from, to) ==
  IF from.ResourceType = TypeSecurityGroup /\ to.ResourceType = TypeSecurityGroup
  THEN TRUE
  ELSE IF from.ResourceType = TypeInstance /\ to.ResourceType = TypeSecurityGroup
  THEN TRUE
  ELSE IF from.ResourceType = TypeSecurityGroup /\ to.ResourceType = TypeInstance
  THEN TRUE
  ELSE IF HasPrefix(from.ResourceType, PrefixIam) /\ HasPrefix(to.ResourceType, PrefixIam)
  THEN TRUE
  ELSE IF Len(from.ModulePath) > 0 /\ Len(to.ModulePath) > 0
  THEN shareModulePath(from.ModulePath, to.ModulePath)
  ELSE IF from.Action = ActionDestroy /\ to.Action # ActionDestroy
  THEN TRUE
  ELSE FALSE

\* the heuristic adjacency that buildHypotheticalGraph fills in: a Go map
\* keyed by full name, so nodes with equal full names share one entry
HeuristicGraph(nodes) ==
  LET names == NodeNames(nodes)
      idx   == [j \in 1..Len(nodes) |-> j]
      EdgesOf(i) ==
        LET js == SelectSeq(idx, LAMBDA j : j # i /\ likelyDependency(nodes[i], nodes[j]))
        IN  [k \in 1..Len(js) |-> names[js[k]]]
  IN  [name \in Range(names) |->
         Flatten([i \in 1..Len(nodes) |->
                    IF names[i] = name THEN EdgesOf(i) ELSE <<>>])]

\* CycleAnalyzer.allNodesHaveConnections
allNodesHaveConnections(graph) ==
  \A name \in DOMAIN graph : Len(graph[name]) # 0

\* CycleAnalyzer.buildSequentialFallback: the last assignment to a key wins
buildSequentialFallback(nodeNames) ==
  [name \in Range(nodeNames) |->
     LET i == CHOOSE i \in 1..Len(nodeNames) :
                /\ nodeNames[i] = name
                /\ \A j \in 1..Len(nodeNames) : nodeNames[j] = name => j <= i
     IN  <<nodeNames[(i % Len(nodeNames)) + 1]>>]

\* CycleAnalyzer.buildHypotheticalGraph
buildHypotheticalGraph(nodes) ==
  LET graph == HeuristicGraph(nodes)
  IN  IF allNodesHaveConnections(graph) THEN graph
      ELSE buildSequentialFallback(NodeNames(nodes))

\* a normalizeCycle that does not rotate
normalizeCycleKeepsStart(cycle) == cycle

\* CycleAnalyzer.normalizeCycle
normalizeCycle(cycle) ==
  IF Len(cycle) = 0 THEN cycle
  ELSE LET minIndex == CHOOSE m \in 1..Len(cycle) :
                         /\ \A i \in 1..Len(cycle) : ~StrLess(cycle[i], cycle[m])
                         /\ \A i \in 1..(m - 1) : StrLess(cycle[m], cycle[i])
       IN  [i \in 1..Len(cycle) |-> cycle[((minIndex - 1 + i - 1) % Len(cycle)) + 1]]

\* the loop of deduplicateCycles from index i on: [seen, unique]
RECURSIVE DedupLoop(_, _, _, _)
DedupLoop(cycles, i, seen, unique) ==
  IF i > Len(cycles) THEN unique
  ELSE IF Len(cycles[i]) < 2 THEN DedupLoop(cycles, i + 1, seen, unique)
  ELSE LET key == Join(normalizeCycle(cycles[i]), <<",">>)
       IN  IF key \notin seen
           THEN DedupLoop(cycles, i + 1, seen \cup {key}, Append(unique, cycles[i]))
           ELSE DedupLoop(cycles, i + 1, seen, unique)

\* CycleAnalyzer.deduplicateCycles
deduplicateCycles(cycles) == DedupLoop(cycles, 1, {}, <<>>)

\* a dfs that emits its whole path
EmittedCycleWholePath(path, cycleStart) == path

\* the cycle dfs emits: a copy of path[cycleStart:]
EmittedCycle(path, cycleStart) == SubSeq(path, cycleStart, Len(path))

\* the closure dfs of findCyclesInGraph; st = [visited, recStack, cycles]
\* are the variables it captures, found is its return value
RECURSIVE dfs(_, _, _, _)
RECURSIVE dfsNeighbors(_, _, _, _, _)
dfs(graph, node, path, st) ==
  dfsNeighbors(graph, node, Append(path, node), 1,
               [st EXCEPT !.visited = @ \cup {node}, !.recStack = @ \cup {node}])

\* the loop of dfs over graph[node] from its k-th neighbour on; a return of
\* true leaves recStack[node] set
dfsNeighbors(graph, node, path, k, st) ==
  IF k > Len(graph[node])
  THEN [found |-> FALSE, st |-> [st EXCEPT !.recStack = @ \ {node}]]
  ELSE LET neighbor == graph[node][k]
       IN  IF neighbor \notin st.visited
           THEN LET r == dfs(graph, neighbor, path, st)
                IN  IF r.found THEN r
                    ELSE dfsNeighbors(graph, node, path, k + 1, r.st)
           ELSE IF neighbor \in st.recStack
           THEN LET starts == {i \in 1..Len(path) : path[i] = neighbor}
                IN  [found |-> TRUE,
                     st |-> IF starts = {} THEN st
                            ELSE [st EXCEPT !.cycles =
                                    Append(@, EmittedCycle(path, Min(starts)))]]
           ELSE dfsNeighbors(graph, node, path, k + 1, st)

\* the loop of findCyclesInGraph over the roots nodeNames[i..]
RECURSIVE dfsRoots(_, _, _, _)
dfsRoots(graph, nodeNames, i, st) ==
  IF i > Len(nodeNames) THEN st
  ELSE IF nodeNames[i] \notin st.visited
  THEN dfsRoots(graph, nodeNames, i + 1, dfs(graph, nodeNames[i], <<>>, st).st)
  ELSE dfsRoots(graph, nodeNames, i + 1, st)

\* CycleAnalyzer.findCyclesInGraph
findCyclesInGraph(graph, nodeNames) ==
  LET st == dfsRoots(graph, nodeNames, 1,
                     [visited |-> {}, recStack |-> {}, cycles |-> <<>>])
      cycles == IF Len(st.cycles) = 0 THEN <<nodeNames>> ELSE st.cycles
  IN  deduplicateCycles(cycles)

\* findCyclesInGraph at its first statement: nothing visited, no cycle, the
\* loop over the roots at its first name; roots counts the calls of dfs from
\* that loop, rootCycles the cycles emitted since the last of them
TraversalBegins ==
  [status |-> "running", i |-> 1, frames |-> <<>>, visited |-> {},
   recStack |-> {}, cycles |-> <<>>, roots |-> 0, rootCycles |-> 0]

\* the parameter path of the innermost dfs, behind its append: the nodes of
\* the frames, outermost first
TraversalPath(t) == [j \in 1..Len(t.frames) |-> t.frames[j].node]

\* dfs is entered for node: visited and recStack are set, node is appended
\* to the path, and the loop over graph[node] is at its first neighbour
dfsEnters(t, node) ==
  [t EXCEPT !.visited = @ \cup {node},
            !.recStack = @ \cup {node},
            !.frames = Append(@, [node |-> node, k |-> 1])]

\* the loop of the innermost dfs goes on to its next neighbour
dfsAdvances(t) ==
  [t EXCEPT !.frames[Len(t.frames)].k = @ + 1]

\* the innermost dfs is through with its neighbours: recStack[node] = false,
\* return false, and the loop of its caller goes on
dfsReturnsFalse(t) ==
  [t EXCEPT !.recStack = @ \ {t.frames[Len(t.frames)].node},
            !.frames = SubSeq(@, 1, Len(@) - 1)]

\* a dfs that goes on with its next neighbour where the code returns true
dfsGoesOn(t) == dfsAdvances(t)

\* the innermost dfs returns true, and so does every dfs that called it:
\* no frame is left, and no recStack entry is reset
dfsReturnsTrue(t) == [t EXCEPT !.frames = <<>>]

\* the branch of dfs for a visited neighbour with recStack set: the cycle
\* from the first occurrence of neighbor in the path is appended, if there
\* is an occurrence
dfsEmits(t, neighbor) ==
  LET path == TraversalPath(t)
      starts == {j \in 1..Len(path) : path[j] = neighbor}
  IN  IF starts = {} THEN t
      ELSE [t EXCEPT !.cycles = Append(@, EmittedCycle(path, Min(starts))),
                     !.rootCycles = @ + 1]

\* one pass of the loop of the innermost dfs, or its end
dfsStep(graph, t) ==
  LET top == t.frames[Len(t.frames)]
  IN  IF top.k > Len(graph[top.node]) THEN dfsReturnsFalse(t)
      ELSE LET neighbor == graph[top.node][top.k]
           IN  IF neighbor \notin t.visited
               THEN dfsEnters(dfsAdvances(t), neighbor)
               ELSE IF neighbor \in t.recStack
               THEN dfsReturnsTrue(dfsEmits(t, neighbor))
               ELSE dfsAdvances(t)

\* one pass of the loop of findCyclesInGraph over nodeNames: dfs is called
\* for a name that is not visited
rootStep(nodeNames, t) ==
  IF nodeNames[t.i] \notin t.visited
  THEN dfsEnters([t EXCEPT !.i = @ + 1, !.roots = @ + 1, !.rootCycles = 0],
                 nodeNames[t.i])
  ELSE [t EXCEPT !.i = @ + 1]

\* findCyclesInGraph behind the loop over the roots: the whole node list
\* where no cycle was emitted, then deduplicateCycles
traversalResult(nodeNames, t) ==
  deduplicateCycles(IF Len(t.cycles) = 0 THEN <<nodeNames>> ELSE t.cycles)

\* one insertion of the insertion sort by length: c goes behind the last
\* cycle that is not longer than it
RECURSIVE InsertByLength(_, _)
InsertByLength(sorted, c) ==
  IF sorted = <<>> THEN <<c>>
  ELSE IF Len(c) < Len(sorted[Len(sorted)])
  THEN Append(InsertByLength(SubSeq(sorted, 1, Len(sorted) - 1), c),
              sorted[Len(sorted)])
  ELSE Append(sorted, c)

\* a FindMinimalCycles that leaves out the sort
SortByLengthSkipped(cycles) == cycles

\* sort.Slice(cycles, len(cycles[i]) < len(cycles[j])): for the at most 12
\* cycles of these runs Go sorts by insertion
RECURSIVE SortByLength(_)
SortByLength(cycles) ==
  IF cycles = <<>> THEN <<>>
  ELSE InsertByLength(SortByLength(SubSeq(cycles, 1, Len(cycles) - 1)),
                      cycles[Len(cycles)])

\* CycleAnalyzer.FindMinimalCycles: the returned list (also stored in Cycles)
FindMinimalCycles(nodes) ==
  SortByLength(findCyclesInGraph(buildHypotheticalGraph(nodes), NodeNames(nodes)))

SuggestSecurityGroup ==
  <<"Security group cycle detected: Remove mutual references between security groups",
    "Use separate aws_security_group_rule resources instead of inline rules",
    "Consider using data sources for existing security groups">>
SuggestIam ==
  <<"IAM cycle detected: Separate role creation from policy attachment",
    "Use aws_iam_role_policy_attachment instead of inline policies">>
SuggestDestroy ==
  <<"Destroy cycle detected: Add lifecycle { create_before_destroy = true }",
    "Review dependency order during resource replacement">>
SuggestGeneric ==
  <<"Break circular dependencies by removing direct references",
    "Use data sources to reference existing resources",
    "Consider splitting resources across multiple Terraform runs">>

\* resourceTypes[type] of GenerateSuggestions: the elements of cycle that
\* name a node of that type
TypeCount(nodes, cycle, type) ==
  Cardinality({i \in 1..Len(cycle) :
                 /\ GetNodeByName(nodes, cycle[i]) # 0
                 /\ nodes[GetNodeByName(nodes, cycle[i])].ResourceType = type})

\* rules whose destroy rule looks for the action destroy only
RuleSuggestionsDestroyOnly(nodes, cycle) ==
  LET hasDestroyAction ==
        \E i \in 1..Len(cycle) :
          /\ GetNodeByName(nodes, cycle[i]) # 0
          /\ nodes[GetNodeByName(nodes, cycle[i])].Action = ActionDestroy
  IN  (IF TypeCount(nodes, cycle, TypeSecurityGroup) >= 2
       THEN SuggestSecurityGroup ELSE <<>>)
      \o (IF /\ TypeCount(nodes, cycle, TypeIamRole) > 0
             /\ TypeCount(nodes, cycle, TypeIamPolicy) > 0
          THEN SuggestIam ELSE <<>>)
      \o (IF hasDestroyAction THEN SuggestDestroy ELSE <<>>)

\* GenerateSuggestions up to its last if: the suggestions of the rules
RuleSuggestions(nodes, cycle) ==
  LET hasDestroyAction ==
        \E i \in 1..Len(cycle) :
          /\ GetNodeByName(nodes, cycle[i]) # 0
          /\ nodes[GetNodeByName(nodes, cycle[i])].Action
               \in {ActionDestroy, ActionDestroyDeposed}
  IN  (IF TypeCount(nodes, cycle, TypeSecurityGroup) >= 2
       THEN SuggestSecurityGroup ELSE <<>>)
      \o (IF /\ TypeCount(nodes, cycle, TypeIamRole) > 0
             /\ TypeCount(nodes, cycle, TypeIamPolicy) > 0
          THEN SuggestIam ELSE <<>>)
      \o (IF hasDestroyAction THEN SuggestDestroy ELSE <<>>)

\* the generic suggestions where suggestions is empty
SuggestionsOrGeneric(suggestions) ==
  IF Len(suggestions) = 0 THEN SuggestGeneric ELSE suggestions

\* a GenerateSuggestions without the generic suggestions
GenerateSuggestionsRulesOnly(nodes, cycle) == RuleSuggestions(nodes, cycle)

\* CycleAnalyzer.GenerateSuggestions
GenerateSuggestions(nodes, cycle) ==
  SuggestionsOrGeneric(RuleSuggestions(nodes, cycle))

\* ------------------------------------------------- formatter and commands

\* what FormatAnalysis puts into the report: the cycles and, if there is
\* one, the suggestions for the first
FormatAnalysis(nodes, cycles) ==
  [format |-> "text", cycles |-> cycles,
   suggestions |-> IF Len(cycles) = 0 THEN <<>>
                   ELSE GenerateSuggestions(nodes, cycles[1])]

\* what FormatAsJSON puts into the document
FormatAsJSON(nodes, cycles) ==
  [format |-> "json", cycles |-> cycles, total_resources |-> Len(nodes),
   suggestions |-> IF Len(cycles) = 0 THEN <<>>
                   ELSE GenerateSuggestions(nodes, cycles[1])]

\* the edges GenerateVisualization draws: the consecutive pairs of the
\* first cycle, closed back to its start; "none" is the empty string
GenerateVisualization(cycles) ==
  IF Len(cycles) = 0 THEN [format |-> "none"]
  ELSE [format |-> "dot",
        edges |-> [i \in 1..Len(cycles[1]) |->
                     <<cycles[1][i], cycles[1][(i % Len(cycles[1])) + 1]>>]]

\* the lines bufio.Scanner yields: split at "\n", no empty last line
ScanLines(content) ==
  LET parts == Split(content, "\n")
  IN  IF parts[Len(parts)] = <<>> THEN SubSeq(parts, 1, Len(parts) - 1)
      ELSE parts

\* the loop of readInput: every line followed by "\n"
ReadLines(lines) == Flatten([i \in 1..Len(lines) |-> Append(lines[i], "\n")])

\* readInput on a readable input: [err, text]
readInput(content) ==
  [err  |-> TrimSpace(ReadLines(ScanLines(content))) = <<>>,
   text |-> ReadLines(ScanLines(content))]

\* ------------------------------------------------ inputs of the model runs

\* resource strings as they appear in cycle diagnostics
SegSgDestroy ==
  <<"a", "w", "s", "_", "s", "e", "c", "u", "r", "i", "t", "y", "_", "g", "r", "o", "u", "p", ".", "a", " ", "(", "d", "e", "s", "t", "r", "o", "y", ")">>
SegModOther ==
  <<"m", "o", "d", "u", "l", "e", ".", "m", ".", "x", ".", "b">>
SegModInstance ==
  <<"m", "o", "d", "u", "l", "e", ".", "m", ".", "a", "w", "s", "_", "i", "n", "s", "t", "a", "n", "c", "e", ".", "c">>
SegIamRole ==
  <<"a", "w", "s", "_", "i", "a", "m", "_", "r", "o", "l", "e", ".", "d">>
SegIamPolicy ==
  <<"a", "w", "s", "_", "i", "a", "m", "_", "p", "o", "l", "i", "c", "y", ".", "e">>
SegSgNormal ==
  <<"a", "w", "s", "_", "s", "e", "c", "u", "r", "i", "t", "y", "_", "g", "r", "o", "u", "p", ".", "a">>
SegDeposed ==
  <<"x", ".", "g", " ", "(", "d", "e", "s", "t", "r", "o", "y", " ", "d", "e", "p", "o", "s", "e", "d", " ", "a", "1", ")">>

\* the nodes parseResource makes of these resource strings
NodeOf(seg) == parseResource(seg).node

SortUniverse ==
  {NodeOf(SegSgDestroy), NodeOf(SegModOther), NodeOf(SegModInstance),
   NodeOf(SegIamRole), NodeOf(SegIamPolicy)}

NodeUniverse == SortUniverse \cup {NodeOf(SegSgNormal), NodeOf(SegDeposed)}

SeqsUpTo(S, n) == UNION {[1..k -> S] : k \in 0..n}

DistinctSeqsUpTo(S, n) ==
  {s \in SeqsUpTo(S, n) : \A i, j \in 1..Len(s) : i # j => s[i] # s[j]}

\* a name that no node of the universe has
UnknownName ==
  <<"n", "o", "n", "e", "x", "i", "s", "t", "e", "n", "t", ".", "r", "e", "s", "o", "u", "r", "c", "e">>

\* how a diagnostic starts: with the cycle marker in two spellings, or without
PrefixMarker ==
  <<"E", "r", "r", "o", "r", ":", " ", "C", "y", "c", "l", "e", ":", " ">>
PrefixMarkerTight ==
  <<"E", "r", "r", "o", "r", ":", "C", "y", "c", "l", "e", ":">>
Prefixes == {PrefixMarker, PrefixMarkerTight, <<>>}

\* the pieces a diagnostic text is put together from
PieceToken ==
  <<"a", ".", "b">>
PieceExpand ==
  <<" ", "(", "e", "x", "p", "a", "n", "d", ")">>
TextPieces ==
  {PieceToken, PieceExpand, <<",">>, <<"c">>, <<"[">>, <<"]">>}

\* the pieces a single resource string is put together from
PieceDestroy ==
  <<" ", "(", "d", "e", "s", "t", "r", "o", "y", ")">>
PieceClose ==
  <<"(", "c", "l", "o", "s", "e", ")">>
PieceDeposed ==
  <<" ", "(", "d", "e", "s", "t", "r", "o", "y", " ", "d", "e", "p", "o", "s", "e", "d", " ", "a", "1", ")">>
PieceDeposedWide ==
  <<" ", "(", "d", "e", "s", "t", "r", "o", "y", " ", " ", "d", "e", "p", "o", "s", "e", "d", " ", "a", "1", ")">>
PieceKey ==
  <<"[", "0", "]">>
PieceQuotedKey ==
  <<"[", "\"", "k", "\"", "]">>
PieceModule ==
  <<"m", "o", "d", "u", "l", "e", ".", "m", ".">>
PieceOpenQuotedKey ==
  <<"[", "\"", "k", "]">>
SegmentPieces ==
  {PieceToken, PieceExpand, PieceDestroy, PieceClose, PieceDeposed,
   PieceDeposedWide, PieceKey, PieceQuotedKey, PieceOpenQuotedKey, PieceModule,
   <<"c">>}

\* the characters of the strings given to splitResources
SplitAlphabet == {"a", ",", "[", "]", "(", ")", " "}

\* the identities cycles are made of; the third has a comma in its key
IdA ==
  <<"a", ".", "b">>
IdB ==
  <<"a", ".", "c">>
IdC ==
  <<"a", ".", "b", "[", "x", ",", "a", ".", "c", "]">>
Identities == {IdA, IdB, IdC}

\* the segments module paths are made of, as strings.Split leaves them
PathSegModule ==
  <<"m", "o", "d", "u", "l", "e">>
PathSegVpc ==
  <<"v", "p", "c">>
PathSegApp ==
  <<"a", "p", "p">>
PathSegments == {PathSegModule, PathSegVpc, PathSegApp}

\* the graphs FindMinimalCycles hands to findCyclesInGraph, with the names
\* of the nodes
ProgramGraphs ==
  {[graph |-> buildHypotheticalGraph(nodes), nodeNames |-> NodeNames(nodes)] :
     nodes \in SeqsUpTo(NodeUniverse, MaxTraverseNodes) \ {<<>>}}

\* the elements of s at the positions S, in their order
SubSeqAt(s, S) ==
  LET idx == SelectSeq([j \in 1..Len(s) |-> j], LAMBDA j : j \in S)
  IN  [k \in 1..Len(idx) |-> s[idx[k]]]

\* any graph over the identities: every name has any of the names as its
\* neighbours, in the order of the names
AnyGraphs ==
  UNION {{[graph |-> g, nodeNames |-> names] :
            g \in [Range(names) -> {SubSeqAt(names, S) : S \in SUBSET (1..Len(names))}]} :
         names \in DistinctSeqsUpTo(Identities, Cardinality(Identities)) \ {<<>>}}

\* ------------------------------------------------------------------ state

VARIABLES
  errorText,    \* the diagnostic text, as the content of the input
  arg,          \* the argument of the function a run applies
  Nodes,        \* TfCycle.Nodes
  Cycles,       \* TfCycle.Cycles, the cached result of FindMinimalCycles
  firstCycles,  \* <<r>> once a caller of the analyzer got r from its first
                \* call of FindMinimalCycles
  firstSuggestions, \* <<c>> once a caller of the analyzer called
                \* GenerateSuggestions: c is the first call, with its cycle,
                \* its result and the cache it saw
  last,         \* the last call and what it returned
  stdout,       \* the lines printed to standard output by fmt.Printf
  report,       \* <<r>> once writeOutput has written the report r
  phase,        \* "start", "parsed" (a TfCycle exists), "done" or "failed"
  traversal     \* the local variables of a findCyclesInGraph under way:
                \* visited, recStack, cycles, the loop over the roots and
                \* the frames of dfs

vars ==
  <<errorText, arg, Nodes, Cycles, firstCycles, firstSuggestions, last, stdout,
    report, phase, traversal>>

NoCall == [name |-> "none"]

\* no findCyclesInGraph is under way
NoTraversal == [status |-> "idle"]

InitRest ==
  /\ Cycles = <<>>
  /\ firstCycles = <<>>
  /\ firstSuggestions = <<>>
  /\ last = NoCall
  /\ stdout = <<>>
  /\ report = <<>>
  /\ traversal = NoTraversal

\* an analysis run: a TfCycle with one node or more, as ParseError returns
\* it; any nodes up to MaxNodes, distinct nodes up to MaxSortNodes
Init ==
  /\ InitRest
  /\ errorText = <<>>
  /\ arg = <<>>
  /\ phase = "parsed"
  /\ Nodes \in (SeqsUpTo(NodeUniverse, MaxNodes)
                \cup DistinctSeqsUpTo(SortUniverse, MaxSortNodes)) \ {<<>>}

\* an analysis run with repeated calls
InitRepeat ==
  /\ InitRest
  /\ errorText = <<>>
  /\ arg = <<>>
  /\ phase = "parsed"
  /\ Nodes \in SeqsUpTo(NodeUniverse, MaxRepeatNodes) \ {<<>>}

\* a run of the program on a diagnostic text
InitParse ==
  /\ InitRest
  /\ arg = <<>>
  /\ phase = "start"
  /\ Nodes = <<>>
  /\ errorText \in {p \o Flatten(ps) : p \in Prefixes, ps \in SeqsUpTo(TextPieces, MaxPieces)}

\* the runs of the pure functions: arg is the argument
InitPure ==
  /\ InitRest
  /\ errorText = <<>>
  /\ phase = "start"
  /\ Nodes = <<>>

InitSplit ==
  /\ InitPure
  /\ arg \in SeqsUpTo(SplitAlphabet, MaxSplitLen)

\* ParseError hands parseResource trimmed, non-empty resource strings
InitSegment ==
  /\ InitPure
  /\ arg \in {TrimSpace(Flatten(ps)) : ps \in SeqsUpTo(SegmentPieces, MaxSegPieces)} \ {<<>>}

\* two cycles
InitNorm ==
  /\ InitPure
  /\ arg \in SeqsUpTo(Identities, MaxCycleLen) \X SeqsUpTo(Identities, MaxCycleLen)

\* two module paths
InitModule ==
  /\ InitPure
  /\ arg \in SeqsUpTo(PathSegments, MaxPathLen) \X SeqsUpTo(PathSegments, MaxPathLen)

\* a call of findCyclesInGraph: arg is the graph with the node names
InitTraverse ==
  /\ InitPure
  /\ arg \in ProgramGraphs \cup AnyGraphs

\* ------------------------------------------------------------- operations

\* a FindMinimalCycles that appends to the cached list instead of
\* replacing it
FindMinimalCyclesAppends ==
  /\ phase = "parsed"
  /\ LET cycles == Cycles \o FindMinimalCycles(Nodes)
     IN  /\ Cycles' = cycles
         /\ firstCycles' = IF firstCycles = <<>> THEN <<cycles>> ELSE firstCycles
         /\ last' = [name |-> "FindMinimalCycles", ret |-> cycles, cached |-> Cycles]
  /\ UNCHANGED <<traversal, errorText, arg, Nodes, firstSuggestions, stdout, report, phase>>

\* a call of CycleAnalyzer.FindMinimalCycles
FindMinimalCyclesCall ==
  /\ phase = "parsed"
  /\ LET cycles == FindMinimalCycles(Nodes)
     IN  /\ Cycles' = cycles
         /\ firstCycles' = IF firstCycles = <<>> THEN <<cycles>> ELSE firstCycles
         /\ last' = [name |-> "FindMinimalCycles", ret |-> cycles, cached |-> Cycles]
  /\ UNCHANGED <<traversal, errorText, arg, Nodes, firstSuggestions, stdout, report, phase>>

\* a call of CycleAnalyzer.GenerateSuggestions, behind its return of ret
GenerateSuggestionsReturns(cycle, ret) ==
  /\ last' = [name |-> "GenerateSuggestions", cycle |-> cycle, ret |-> ret]
  /\ firstSuggestions' =
       IF firstSuggestions = <<>>
       THEN <<[cycle |-> cycle, ret |-> ret, cached |-> Cycles]>>
       ELSE firstSuggestions
  /\ UNCHANGED <<traversal, errorText, arg, Nodes, Cycles, firstCycles, stdout, report, phase>>

\* a call of CycleAnalyzer.GenerateSuggestions: on a returned cycle, on all
\* node names, on no name, or on a name that no node has
GenerateSuggestionsCall ==
  /\ phase = "parsed"
  /\ \E cycle \in Range(Cycles) \cup {NodeNames(Nodes), <<>>, <<UnknownName>>} :
       GenerateSuggestionsReturns(cycle, GenerateSuggestions(Nodes, cycle))

\* a call of TfCycle.GetNodeByName with the full name of node i, or (i = 0)
\* with a name that no node has
GetNodeByNameCall ==
  /\ phase = "parsed"
  /\ \E i \in 0..Len(Nodes) :
       LET name == IF i = 0 THEN UnknownName ELSE FullName(Nodes[i])
       IN  last' = [name |-> "GetNodeByName", node |-> i, arg |-> name,
                    ret |-> GetNodeByName(Nodes, name)]
  /\ UNCHANGED <<traversal, errorText, arg, Nodes, Cycles, firstCycles, firstSuggestions, stdout, report, phase>>

\* a call of Parser.ParseError on the text, behind its return of r
ParseErrorReturns(r) ==
  /\ Nodes' = r.Nodes
  /\ stdout' = stdout \o r.warnings
  /\ last' = [name |-> "ParseError", err |-> r.err, isNil |-> r.isNil]
  /\ phase' = IF r.err = ErrNone THEN "parsed" ELSE "failed"
  /\ UNCHANGED <<traversal, errorText, arg, Cycles, firstCycles, firstSuggestions, report>>

\* a call of Parser.ParseError on the text
ParseErrorCall ==
  /\ phase = "start"
  /\ ParseErrorReturns(ParseError(errorText))

\* a command that returns the error err: nothing is analysed or written
CommandFails(command, err, warnings) ==
  /\ stdout' = stdout \o warnings
  /\ last' = [name |-> command, err |-> err, analyzed |-> FALSE]
  /\ phase' = "failed"
  /\ UNCHANGED <<traversal, errorText, arg, Nodes, Cycles, firstCycles, firstSuggestions, report>>

\* a command behind its analysis of the cycles: output is what it formatted
CommandWrites(command, r, cycles, output) ==
  /\ Nodes' = r.Nodes
  /\ Cycles' = cycles
  /\ stdout' = stdout \o r.warnings
  /\ report' = <<output>>
  /\ last' = [name |-> command, err |-> ErrNone, analyzed |-> TRUE]
  /\ phase' = "done"
  /\ UNCHANGED <<traversal, errorText, arg, firstCycles, firstSuggestions>>

\* runAnalyze behind the analysis
runAnalyzeFormats(json, r, cycles) ==
  CommandWrites("runAnalyze", r, cycles,
                IF json THEN FormatAsJSON(r.Nodes, cycles)
                ELSE FormatAnalysis(r.Nodes, cycles))

\* runAnalyze behind ParseError, which returned r
runAnalyzeParsed(json, r) ==
  IF r.err # ErrNone THEN CommandFails("runAnalyze", r.err, r.warnings)
  ELSE runAnalyzeFormats(json, r, FindMinimalCycles(r.Nodes))

\* runAnalyze behind readInput, which returned in
runAnalyzeRead(json, in) ==
  IF in.err THEN CommandFails("runAnalyze", ErrEmptyInput, <<>>)
  ELSE runAnalyzeParsed(json, ParseError(in.text))

\* the command analyze, as text or as JSON
runAnalyze ==
  /\ phase = "start"
  /\ \E json \in BOOLEAN : runAnalyzeRead(json, readInput(errorText))

\* runVisualize behind the analysis; the cycles were stored in any case
runVisualizeFormats(r, cycles, dotOutput) ==
  IF dotOutput.format = "none"
  THEN /\ Nodes' = r.Nodes
       /\ Cycles' = cycles
       /\ stdout' = stdout \o r.warnings
       /\ last' = [name |-> "runVisualize", err |-> ErrNoCyclesFound,
                   analyzed |-> TRUE]
       /\ phase' = "failed"
       /\ UNCHANGED <<traversal, errorText, arg, firstCycles, firstSuggestions, report>>
  ELSE CommandWrites("runVisualize", r, cycles, dotOutput)

\* runVisualize behind FindMinimalCycles, which returned cycles
runVisualizeAnalyzed(r, cycles) ==
  runVisualizeFormats(r, cycles, GenerateVisualization(cycles))

\* runVisualize behind ParseError, which returned r
runVisualizeParsed(r) ==
  IF r.err # ErrNone THEN CommandFails("runVisualize", r.err, r.warnings)
  ELSE runVisualizeAnalyzed(r, FindMinimalCycles(r.Nodes))

\* runVisualize behind readInput, which returned in
runVisualizeRead(in) ==
  IF in.err THEN CommandFails("runVisualize", ErrEmptyInput, <<>>)
  ELSE runVisualizeParsed(ParseError(in.text))

\* the command visualize
runVisualize ==
  /\ phase = "start"
  /\ runVisualizeRead(readInput(errorText))

\* a call of Parser.splitResources on arg
SplitResourcesCall ==
  /\ phase = "start"
  /\ last' = [name |-> "splitResources", ret |-> splitResources(arg)]
  /\ phase' = "done"
  /\ UNCHANGED <<traversal, errorText, arg, Nodes, Cycles, firstCycles, firstSuggestions, stdout, report>>

\* a call of Parser.parseResource on arg, behind its return of r
ParseResourceReturns(r) ==
  /\ last' = [name |-> "parseResource", ok |-> r.ok, node |-> r.node,
              cleanStr |-> r.cleanStr]
  /\ phase' = "done"
  /\ UNCHANGED <<traversal, errorText, arg, Nodes, Cycles, firstCycles, firstSuggestions, stdout, report>>

\* a call of Parser.parseResource on arg
ParseResourceCall ==
  /\ phase = "start"
  /\ ParseResourceReturns(parseResource(arg))

\* a call of CycleAnalyzer.normalizeCycle on one of the two cycles
NormalizeCycleCall ==
  /\ phase = "start"
  /\ \E i \in 1..2 :
       last' = [name |-> "normalizeCycle", cycle |-> arg[i],
                ret |-> normalizeCycle(arg[i])]
  /\ UNCHANGED <<traversal, errorText, arg, Nodes, Cycles, firstCycles, firstSuggestions, stdout, report, phase>>

\* a call of CycleAnalyzer.deduplicateCycles on the list of the two cycles
DeduplicateCyclesCall ==
  /\ phase = "start"
  /\ last' = [name |-> "deduplicateCycles", ret |-> deduplicateCycles(arg)]
  /\ UNCHANGED <<traversal, errorText, arg, Nodes, Cycles, firstCycles, firstSuggestions, stdout, report, phase>>

\* a call of CycleAnalyzer.buildHypotheticalGraph on the names of the nodes
BuildHypotheticalGraphCall ==
  /\ phase = "parsed"
  /\ last' = [name |-> "buildHypotheticalGraph", ret |-> buildHypotheticalGraph(Nodes)]
  /\ UNCHANGED <<traversal, errorText, arg, Nodes, Cycles, firstCycles, firstSuggestions, stdout, report, phase>>

\* a call of CycleAnalyzer.likelyDependency on two nodes of the list, as in
\* the double loop of buildHypotheticalGraph
LikelyDependencyCall ==
  /\ phase = "parsed"
  /\ \E i, j \in 1..Len(Nodes) :
       /\ i # j
       /\ last' = [name |-> "likelyDependency", from |-> i, to |-> j,
                   ret |-> likelyDependency(Nodes[i], Nodes[j])]
  /\ UNCHANGED <<traversal, errorText, arg, Nodes, Cycles, firstCycles, firstSuggestions, stdout, report, phase>>

\* a call of CycleAnalyzer.shareModulePath on the two paths
ShareModulePathCall ==
  /\ phase = "start"
  /\ last' = [name |-> "shareModulePath", ret |-> shareModulePath(arg[1], arg[2])]
  /\ phase' = "done"
  /\ UNCHANGED <<traversal, errorText, arg, Nodes, Cycles, firstCycles, firstSuggestions, stdout, report>>

\* findCyclesInGraph is called on the graph and the node names of arg
FindCyclesInGraphBegins ==
  /\ phase = "start"
  /\ traversal = NoTraversal
  /\ traversal' = TraversalBegins
  /\ last' = [name |-> "findCyclesInGraph", returned |-> FALSE]
  /\ UNCHANGED <<errorText, arg, Nodes, Cycles, firstCycles, firstSuggestions, stdout, report, phase>>

\* the loop over the roots takes its next name
FindCyclesInGraphRoot ==
  /\ traversal.status = "running"
  /\ traversal.frames = <<>>
  /\ traversal.i <= Len(arg.nodeNames)
  /\ traversal' = rootStep(arg.nodeNames, traversal)
  /\ UNCHANGED <<errorText, arg, Nodes, Cycles, firstCycles, firstSuggestions, last, stdout, report, phase>>

\* the innermost dfs takes its next neighbour or returns
FindCyclesInGraphDfs ==
  /\ traversal.status = "running"
  /\ traversal.frames # <<>>
  /\ traversal' = dfsStep(arg.graph, traversal)
  /\ UNCHANGED <<errorText, arg, Nodes, Cycles, firstCycles, firstSuggestions, last, stdout, report, phase>>

\* findCyclesInGraph returns behind the last root
FindCyclesInGraphReturns ==
  /\ traversal.status = "running"
  /\ traversal.frames = <<>>
  /\ traversal.i > Len(arg.nodeNames)
  /\ traversal' = [traversal EXCEPT !.status = "returned"]
  /\ last' = [name |-> "findCyclesInGraph", returned |-> TRUE,
              ret |-> traversalResult(arg.nodeNames, traversal)]
  /\ phase' = "done"
  /\ UNCHANGED <<errorText, arg, Nodes, Cycles, firstCycles, firstSuggestions, stdout, report>>

\* ---------------------------------------------------------- specifications

\* the analyzer and the lookup on a parsed node list
Next ==
  \/ FindMinimalCyclesCall
  \/ GetNodeByNameCall

Spec == Init /\ [][Next]_vars

\* repeated calls of the analyzer on a parsed node list
NextRepeat ==
  \/ FindMinimalCyclesCall
  \/ GenerateSuggestionsCall

SpecRepeat == InitRepeat /\ [][NextRepeat]_vars

\* the parser and the commands on a diagnostic text
NextParse ==
  \/ ParseErrorCall
  \/ runAnalyze
  \/ runVisualize

SpecParse == InitParse /\ [][NextParse]_vars

\* splitResources on character strings
SpecSplit == InitSplit /\ [][SplitResourcesCall]_vars

\* parseResource on resource strings
SpecSegment == InitSegment /\ [][ParseResourceCall]_vars

\* normalizeCycle and deduplicateCycles on two cycles
NextNorm ==
  \/ NormalizeCycleCall
  \/ DeduplicateCyclesCall

SpecNorm == InitNorm /\ [][NextNorm]_vars

\* the reconstruction of the graph on a parsed node list
NextGraph ==
  \/ BuildHypotheticalGraphCall
  \/ LikelyDependencyCall

SpecGraph == Init /\ [][NextGraph]_vars

\* shareModulePath on two module paths
SpecModule == InitModule /\ [][ShareModulePathCall]_vars

\* findCyclesInGraph step by step on a graph
NextTraverse ==
  \/ FindCyclesInGraphBegins
  \/ FindCyclesInGraphRoot
  \/ FindCyclesInGraphDfs
  \/ FindCyclesInGraphReturns

SpecTraverse == InitTraverse /\ [][NextTraverse]_vars

\* ------------------------------------------------- notions of the claims

\* where text has a cycle marker: "Error:", white space, "Cycle:"
MarkerStarts(text) ==
  {i \in 1..Len(text) :
     /\ HasPrefixAt(text, ErrorColon, i)
     /\ HasPrefixAt(text, CycleColon, RunEnd(text, i + 6, SpaceChars) + 1)}

HasMarker(text) == MarkerStarts(text) # {}

\* the text behind the marker that starts at i
TextBehind(text, i) == SubSeq(text, RunEnd(text, i + 6, SpaceChars) + 7, Len(text))

\* the text behind the first marker
AfterMarker(text) == TextBehind(text, Min(MarkerStarts(text)))

\* the closer that matches an opener, looked for from k on at nesting
\* depth (0: the opener is not closed)
RECURSIVE GroupClose(_, _, _, _, _)
GroupClose(s, k, depth, open, close) ==
  IF k > Len(s) THEN 0
  ELSE IF s[k] = close
  THEN IF depth = 0 THEN k ELSE GroupClose(s, k + 1, depth - 1, open, close)
  ELSE IF s[k] = open THEN GroupClose(s, k + 1, depth + 1, open, close)
  ELSE GroupClose(s, k + 1, depth, open, close)

\* the closer of the opener at j is behind i, or the opener is never closed
\* and groups the rest of s
ClosesBehind(s, j, i, open, close) ==
  \/ GroupClose(s, j + 1, 0, open, close) = 0
  \/ GroupClose(s, j + 1, 0, open, close) > i

\* position i lies inside a group: behind an opener, before its closer
InGroup(s, i, open, close) ==
  \E j \in 1..(i - 1) : s[j] = open /\ ClosesBehind(s, j, i, open, close)

\* a comma outside every [...] and every (...) group
TopLevelComma(s, i) ==
  /\ s[i] = ","
  /\ ~InGroup(s, i, "[", "]")
  /\ ~InGroup(s, i, "(", ")")

\* s cut at its top-level commas
RECURSIVE TopLevelPieces(_, _, _)
TopLevelPieces(s, i, current) ==
  IF i > Len(s) THEN <<current>>
  ELSE IF TopLevelComma(s, i) THEN <<current>> \o TopLevelPieces(s, i + 1, <<>>)
  ELSE TopLevelPieces(s, i + 1, Append(current, s[i]))

\* the top-level segments of s: trimmed, the blank ones left out
TopLevelSegments(s) == FilterBlank(TopLevelPieces(ReplaceNewlinesAndTabs(s), 1, <<>>))

\* the nodes of the segments that parse, in their order
RECURSIVE NodesOfSegments(_)
NodeOfSegment(r) == IF r.ok THEN <<r.node>> ELSE <<>>
NodesOfSegments(segs) ==
  IF segs = <<>> THEN <<>>
  ELSE NodeOfSegment(parseResource(Head(segs))) \o NodesOfSegments(Tail(segs))

\* no marker in text, or no segment behind it that parses
FatalExpected(text) ==
  \/ ~HasMarker(text)
  \/ NodesOfSegments(splitResources(AfterMarker(text))) = <<>>

\* the rotations of a cycle
Rotate(c, k) == [i \in 1..Len(c) |-> c[((i - 1 + k) % Len(c)) + 1]]
Rotations(c) == {Rotate(c, k) : k \in 0..(Len(c) - 1)}

\* no identity of c is smaller than its i-th
IsSmallest(c, i) == \A j \in 1..Len(c) : ~StrLess(c[j], c[i])

\* the smallest identity of c occurs once
SmallestOnce(c) == Cardinality({i \in 1..Len(c) : IsSmallest(c, i)}) = 1

\* the "(" of a recognised annotation that ends the segment s (0: none)
ClosingAnnotation(s) ==
  MinOrZero({q \in 1..Len(s) : s[q] = "(" /\ ActionEndAt(s, q) = Len(s)})

\* the text between the parentheses of that annotation
AnnotationText(s) == SubSeq(s, ClosingAnnotation(s) + 1, Len(s) - 1)

\* the action an annotation text stands for
ExpectedAction(text) ==
  IF text = StrExpand THEN ActionExpand
  ELSE IF text = StrDestroy THEN ActionDestroy
  ELSE IF text = StrClose THEN ActionClose
  ELSE ActionDestroyDeposed

\* the hexadecimal id that ends an annotation text
HexIdOf(text) == SubSeq(text, LastOutside(text, Len(text), HexChars) + 1, Len(text))

\* ------------------------------------------------------------------ claims

\* C1: for every node list with at least one node, FindMinimalCycles
\* returns a list with at least one cycle.
C1_FallbackGuarantee ==
  (last.name = "FindMinimalCycles" /\ Len(Nodes) >= 1) => Len(last.ret) >= 1

\* C2: for every node n of the node list, GetNodeByName(n.FullName())
\* returns n itself, not another node.
C2_IdentityRoundTrip ==
  (last.name = "GetNodeByName" /\ last.node >= 1) => last.ret = last.node

C4_SortedByLength ==
  last.name = "FindMinimalCycles" =>
    \A i, j \in 1..Len(last.ret) : i < j => Len(last.ret[i]) <= Len(last.ret[j])

\* FindMinimalCycles returned cycles in another order than they were found
C4_Witness ==
  /\ last.name = "FindMinimalCycles"
  /\ Len(last.ret) >= 2
  /\ findCyclesInGraph(buildHypotheticalGraph(Nodes), NodeNames(Nodes)) # last.ret

C6_AlwaysSuggests ==
  last.name = "GenerateSuggestions" => Len(last.ret) >= 1

\* GenerateSuggestions was called on an identity that no node has
C6_Witness ==
  /\ last.name = "GenerateSuggestions"
  /\ last.cycle = <<UnknownName>>
  /\ last.ret = SuggestGeneric

\* C7: ParseError returns an error and no node list exactly when the text
\* has no cycle marker or no segment survives; then runAnalyze and
\* runVisualize analyse nothing and write no report; and when ParseError
\* succeeds the node list has at least one node.
C7_FatalParseErrors ==
  /\ last.name = "ParseError" =>
       /\ (last.err # ErrNone) <=> FatalExpected(errorText)
       /\ last.err # ErrNone => (last.isNil /\ Nodes = <<>>)
       /\ last.err = ErrNone => (~last.isNil /\ Len(Nodes) >= 1)
  /\ last.name \in {"runAnalyze", "runVisualize"} =>
       /\ FatalExpected(readInput(errorText).text) =>
            /\ ~last.analyzed
            /\ last.err # ErrNone
            /\ report = <<>>
            /\ Cycles = <<>>
            /\ Nodes = <<>>
       /\ last.analyzed => Len(Nodes) >= 1

\* runAnalyze stopped at a text with a marker and no segment that parses
C7_Witness ==
  /\ last.name = "runAnalyze"
  /\ last.err = ErrNoResources
  /\ HasMarker(errorText)
  /\ stdout # <<>>
  /\ report = <<>>

\* C8: for a text with a marker, the nodes ParseError produces are the
\* nodes of the top-level comma-separated segments that parse, one each, in
\* their order, and each has a resource type and a resource name.
C8_OneNodePerSegment ==
  (last.name = "ParseError" /\ HasMarker(errorText)) =>
    /\ Nodes = NodesOfSegments(TopLevelSegments(AfterMarker(errorText)))
    /\ \A i \in 1..Len(Nodes) :
         Nodes[i].ResourceType # <<>> /\ Nodes[i].ResourceName # <<>>

\* C9: splitResources cuts its input at the commas outside every [...]
\* and every (...) group, and at no other place.
C9_TopLevelSplit ==
  last.name = "splitResources" => last.ret = TopLevelSegments(arg)

\* C10: a segment that ends with a recognised annotation gets the action
\* of that annotation and, in the deposed form, its hexadecimal id as
\* deposed_id; a segment without annotation gets the action normal and no
\* deposed_id; no annotation is left in the string parsed further.
C10_LifecycleAnnotation ==
  (last.name = "parseResource" /\ last.ok) =>
    /\ ClosingAnnotation(arg) # 0 =>
         /\ last.node.Action = ExpectedAction(AnnotationText(arg))
         /\ ExpectedAction(AnnotationText(arg)) = ActionDestroyDeposed =>
              <<"deposed_id", HexIdOf(AnnotationText(arg))>> \in last.node.Annotations
    /\ ~ActionMatchFrom(arg, 1).found =>
         (last.node.Action = ActionNormal /\ last.node.Annotations = {})
    /\ ~ActionMatchFrom(last.cleanStr, 1).found

\* an edge of the adjacency: b is among the successors of a
HasEdge(graph, a, b) == a \in DOMAIN graph /\ b \in Range(graph[a])

\* c is an elementary cycle of the adjacency: distinct elements, an edge
\* from each to the next and from the last to the first
IsElementaryCycle(graph, c) ==
  /\ Len(c) >= 1
  /\ \A i, j \in 1..Len(c) : i # j => c[i] # c[j]
  /\ \A i \in 1..Len(c) : HasEdge(graph, c[i], c[(i % Len(c)) + 1])

\* the elementary cycles of k elements of the adjacency
CyclesOfLength(graph, k) ==
  {c \in [1..k -> DOMAIN graph] : IsElementaryCycle(graph, c)}

\* C11: the first cycle FindMinimalCycles returns is a shortest elementary
\* cycle of the adjacency used: the adjacency has no elementary cycle of two
\* or more nodes with fewer elements than it.
C11_FirstIsShortest ==
  (last.name = "FindMinimalCycles" /\ last.ret # <<>>) =>
    \A k \in 2..(Len(last.ret[1]) - 1) :
      CyclesOfLength(buildHypotheticalGraph(Nodes), k) = {}

\* C12: every cycle FindMinimalCycles returns is an elementary cycle of the
\* adjacency used: distinct full names of nodes of the list, not more than
\* there are nodes, an edge from each to the next and from the last to the
\* first.
C12_ElementaryCycles ==
  last.name = "FindMinimalCycles" =>
    \A n \in 1..Len(last.ret) :
      /\ IsElementaryCycle(buildHypotheticalGraph(Nodes), last.ret[n])
      /\ Range(last.ret[n]) \subseteq Range(NodeNames(Nodes))
      /\ Len(last.ret[n]) <= Len(Nodes)

\* FindMinimalCycles returned two cycles, one of them with three elements,
\* from the heuristic adjacency
C12_Witness ==
  /\ last.name = "FindMinimalCycles"
  /\ Len(last.ret) >= 2
  /\ \E n \in 1..Len(last.ret) : Len(last.ret[n]) >= 3
  /\ allNodesHaveConnections(HeuristicGraph(Nodes))

\* the operations of the core
CoreOperations ==
  {"ParseError", "FindMinimalCycles", "GenerateSuggestions", "GetNodeByName"}

\* C13: no call of a core operation (ParseError, FindMinimalCycles,
\* GenerateSuggestions, GetNodeByName) writes to standard output, neither
\* when it succeeds nor when a segment fails to parse.
C13_CoreWritesNothing ==
  [][last'.name \in CoreOperations => stdout' = stdout]_vars

\* the nodes node i has a heuristic edge to
HeuristicSuccessors(nodes, i) ==
  {j \in 1..Len(nodes) : j # i /\ likelyDependency(nodes[i], nodes[j])}

\* C14: buildHypotheticalGraph returns the heuristic adjacency as it is
\* exactly when every node has a heuristic edge to another node; otherwise
\* it returns the ring in which node i has the single successor node i+1,
\* and the last node the first.
C14_GraphChoice ==
  last.name = "buildHypotheticalGraph" =>
    IF \A i \in 1..Len(Nodes) : HeuristicSuccessors(Nodes, i) # {}
    THEN last.ret = HeuristicGraph(Nodes)
    ELSE /\ DOMAIN last.ret = Range(NodeNames(Nodes))
         /\ \A i \in 1..Len(Nodes) :
              last.ret[NodeNames(Nodes)[i]] = <<NodeNames(Nodes)[(i % Len(Nodes)) + 1]>>

\* a destructive lifecycle action
Destructive(n) == n.Action \in {ActionDestroy, ActionDestroyDeposed}

\* C16: for two distinct nodes a and b, a with the action destroy or
\* destroy_deposed and b with neither, likelyDependency(a, b) is true,
\* whatever their resource types and module paths are.
C16_DestructiveEdge ==
  (/\ last.name = "likelyDependency"
   /\ Destructive(Nodes[last.from])
   /\ ~Destructive(Nodes[last.to])) => last.ret

\* p is a prefix of q
IsPrefixOf(p, q) == Len(p) <= Len(q) /\ SubSeq(q, 1, Len(p)) = p

\* C17, as stated: shareModulePath is true exactly when the two paths have
\* a common prefix of at least one segment, i.e. both have a first segment
\* and the first segments are equal.
C17_CommonPrefix ==
  last.name = "shareModulePath" =>
    (last.ret <=> (/\ arg[1] # <<>>
                   /\ arg[2] # <<>>
                   /\ arg[1][1] = arg[2][1]))

\* C17, amended: shareModulePath is true exactly when both paths have a
\* segment and the shorter path is a prefix of the longer one.
C17_OneIsPrefix ==
  last.name = "shareModulePath" =>
    (last.ret <=> (/\ arg[1] # <<>>
                   /\ arg[2] # <<>>
                   /\ (IsPrefixOf(arg[1], arg[2]) \/ IsPrefixOf(arg[2], arg[1]))))

\* shareModulePath refused two paths that begin with the same segment and
\* differ behind it
C17_Witness ==
  /\ last.name = "shareModulePath"
  /\ ~last.ret
  /\ Len(arg[1]) >= 2 /\ Len(arg[2]) >= 2
  /\ arg[1][1] = arg[2][1]

\* the traversal in steps returns what findCyclesInGraph returns
TraversalAgrees ==
  (last.name = "findCyclesInGraph" /\ last.returned) =>
    last.ret = findCyclesInGraph(arg.graph, arg.nodeNames)

\* C15: at every step of findCyclesInGraph inside a dfs, whatever the root,
\* the nodes with recStack set are exactly the nodes of the active path.
C15_RecStackIsPath ==
  (traversal.status = "running" /\ traversal.frames # <<>>) =>
    traversal.recStack = Range(TraversalPath(traversal))

C19_FirstCyclePerRoot ==
  /\ traversal.status \in {"running", "returned"} =>
       /\ traversal.rootCycles <= 1
       /\ traversal.rootCycles = 1 => traversal.frames = <<>>
       /\ Len(traversal.cycles) <= traversal.roots
  /\ (last.name = "findCyclesInGraph" /\ last.returned) =>
       Len(last.ret) <= traversal.roots

\* findCyclesInGraph called dfs for two roots or more, returned a cycle
\* and left out another elementary cycle of the graph
C19_Witness ==
  /\ last.name = "findCyclesInGraph"
  /\ last.returned
  /\ traversal.roots >= 2
  /\ Len(last.ret) >= 1
  /\ \E k \in 2..Len(arg.nodeNames) :
       \E c \in CyclesOfLength(arg.graph, k) :
         \A n \in 1..Len(last.ret) : c \notin Rotations(last.ret[n])

\* the nodes a cycle names, in its order: for each identity the node the
\* lookup finds, none for an identity without node
RECURSIVE NodesOfCycle(_, _)
NodesOfCycle(nodes, cycle) ==
  IF cycle = <<>> THEN <<>>
  ELSE LET i == GetNodeByName(nodes, Head(cycle))
       IN  (IF i = 0 THEN <<>> ELSE <<nodes[i]>>) \o NodesOfCycle(nodes, Tail(cycle))

\* how many of the nodes ns have the resource type type
CountOfType(ns, type) == Len(SelectSeq(ns, LAMBDA n : n.ResourceType = type))

\* the suggestions the three rules give for the nodes ns, in their order
ExpectedRules(ns) ==
  (IF CountOfType(ns, TypeSecurityGroup) >= 2 THEN SuggestSecurityGroup ELSE <<>>)
  \o (IF CountOfType(ns, TypeIamRole) >= 1 /\ CountOfType(ns, TypeIamPolicy) >= 1
      THEN SuggestIam ELSE <<>>)
  \o (IF \E j \in 1..Len(ns) : Destructive(ns[j]) THEN SuggestDestroy ELSE <<>>)

BracketSuffixStart(s) ==
  IF s = <<>> \/ s[Len(s)] # "]" THEN 0
  ELSE LET opens == {q \in 1..(Len(s) - 2) : s[q] = "["}
           q == CHOOSE q \in opens : \A r \in opens : r <= q
       IN  IF opens = {} THEN 0
           ELSE IF \E k \in (q + 1)..(Len(s) - 1) : s[k] = "]" THEN 0
           ELSE q

\* a captured value without its pair of double quotes, if it has the pair
Unquoted(v) ==
  IF Len(v) >= 2 /\ v[1] = "\"" /\ v[Len(v)] = "\""
  THEN SubSeq(v, 2, Len(v) - 1)
  ELSE v

\* s behind its leading module groups
BehindModulePath(s) == SubSeq(s, ModulePrefixEnd(s, 1) + 1, Len(s))

\* C21: behind the removal of the annotation, a segment that ends with a
\* bracket group gets the content of that group as its instance key,
\* without the double quotes if and only if it is wrapped in a pair of
\* them, and only that group is stripped before the module path and
\* <type>.<name> are parsed; a segment that does not end with a bracket
\* gets an empty instance key and nothing is stripped.
C21_InstanceKeySuffix ==
  (last.name = "parseResource" /\ last.ok) =>
    LET s == ParseAction(arg).cleanStr
        q == BracketSuffixStart(s)
    IN  /\ q # 0 =>
             /\ last.node.InstanceKey = Unquoted(SubSeq(s, q + 1, Len(s) - 1))
             /\ last.cleanStr = BehindModulePath(SubSeq(s, 1, q - 1))
        /\ (s = <<>> \/ s[Len(s)] # "]") =>
             /\ last.node.InstanceKey = <<>>
             /\ last.cleanStr = BehindModulePath(s)

====
